---- MODULE Spec2Model ----
(***************************************************************************)
(* The abuse guard of app.py (per-user minimum interval, per-minute        *)
(* sliding windows, temporary block) and the webhook dispatcher that       *)
(* consults it.                                                            *)
(*                                                                         *)
(* Time is the value time.time() returns, in whole seconds.  The wall      *)
(* clock is taken to be non-decreasing.  Every call of time.time() in the  *)
(* source is a separate read of the clock, so inside one handler the reads *)
(* may differ (the lags of webhook).                                       *)
(***************************************************************************)
EXTENDS Integers, Sequences, FiniteSets, TLC

\* ---------------------------------------------------------------- constants
RATE_MIN_INTERVAL_SEC == 5
IMG_MAX_PER_MIN == 3
MSG_MAX_PER_MIN == 15
TEMP_BLOCK_MINUTES == 30
\* the literal 60 of the two eviction loops (seconds of history kept)
WINDOW_SEC == 60
\* deque(maxlen=60)
HISTORY_MAXLEN == 60

\* the two warning texts record_and_check_limits returns, and None
TooManyMessages == "TooManyMessages"
TooManyImages == "TooManyImages"
None == "None"

\* ------------------------------------------------------------------- bounds
\* how many times the clock advances in a run of Spec
MaxTicks == 5
\* how many times the clock advances in a run of SoloSpec
MaxSoloTicks == 16
\* how many times the clock advances in a run of GateSpec
MaxGateTicks == 3
\* how many direct calls of record_and_check_limits a run of GateSpec makes
MaxGateCalls == 4
\* how many times the clock advances in a run of RecordSpec
MaxRecordTicks == 1
\* how many direct calls of record_and_check_limits a run of RecordSpec makes
MaxCalls == 17

\* how many times the clock advances in a run of BatchSpec
MaxBatchTicks == 1
\* how many events a request of BatchSpec carries at most
MaxBatch == 3
\* how many times the clock advances in a run of LagSpec
MaxLagTicks == 14
\* how many times the clock advances in a run of PairSpec
MaxPairTicks == 4
\* how many times the clock advances in a run of RaceSpec
MaxRaceTicks == 2

\* ------------------------------------------------------------------- inputs
\* an event whose source carries no userId
NoUserId == "-"
\* what the clock advances by between two events of the dispatcher
Deltas == {RATE_MIN_INTERVAL_SEC, TEMP_BLOCK_MINUTES * 60}
\* what the clock advances by between two reads inside one handler
Lags == {0, RATE_MIN_INTERVAL_SEC}
\* what the clock advances by between two direct calls of is_blocked,
\* block_user and too_frequent
GateDeltas == {1, RATE_MIN_INTERVAL_SEC, 60}
\* the minutes block_user is called with directly
BlockMinutes == {1, TEMP_BLOCK_MINUTES}
\* what the clock advances by between two direct calls of record_and_check_limits
RecordDeltas == {WINDOW_SEC, WINDOW_SEC + 1}
\* what the clock advances by before the concurrent requests arrive
RaceDeltas == {RATE_MIN_INTERVAL_SEC, WINDOW_SEC + 1}

VARIABLES
    clock,            \* time.time()
    _last_msg_time,   \* defaultdict(float): userId -> time of the last accepted event
    _img_history,     \* defaultdict(deque(maxlen=60)): userId -> image timestamps
    _msg_history,     \* defaultdict(deque(maxlen=60)): userId -> message timestamps
    _blocked_until,   \* defaultdict(float): userId -> end of the block
    ev,               \* what the last operation was given, did and returned
    ticks,            \* how many times the clock has advanced
    calls,            \* the times of the direct calls of record_and_check_limits
                      \* so far (all), and of those with is_image (img)
    streak,           \* userId -> events in a row that passed is_blocked and too_frequent
    handlers,         \* request thread -> where it is in the handling of its event
    start             \* the guard's maps when the last request, or the
                      \* concurrent requests, arrived

guard == <<_last_msg_time, _img_history, _msg_history, _blocked_until>>
vars == <<clock, _last_msg_time, _img_history, _msg_history, _blocked_until,
          ev, ticks, calls, streak, handlers, start>>
\* the requests being handled concurrently
race == <<handlers, start>>

\* ------------------------------------------------------------- defaultdict
EmptyDict == [k \in {} |-> 0]

\* d[k] of a defaultdict as a value: the default when k was never stored
Get(d, k, dflt) == IF k \in DOMAIN d THEN d[k] ELSE dflt

\* what reading d[k] does to a defaultdict: a missing key is stored with the default
Touch(d, k, dflt) == IF k \in DOMAIN d THEN d ELSE (k :> dflt) @@ d

\* d[k] = v
Put(d, k, v) == (k :> v) @@ d

\* the guard's four maps as one value
GuardState == [last |-> _last_msg_time, img |-> _img_history,
               msg |-> _msg_history, blocked |-> _blocked_until]

\* ------------------------------------------------------------------- deque
\* deque.append with maxlen: a full deque drops its leftmost entry
DequeAppend(h, x) ==
    LET a == Append(h, x)
    IN  IF Len(a) > HISTORY_MAXLEN THEN Tail(a) ELSE a

\* the eviction loop left out: nothing is ever dropped from the window
EvictNothing(h, now) == h

\* the eviction with `if` for `while`: at most one entry is dropped
EvictOnce(h, now) ==
    IF h # <<>> /\ now - Head(h) > WINDOW_SEC THEN Tail(h) ELSE h

\* while h and now - h[0] > 60: h.popleft()
RECURSIVE Evict(_, _)
Evict(h, now) ==
    IF h # <<>> /\ now - Head(h) > WINDOW_SEC THEN Evict(Tail(h), now) ELSE h

\* --------------------------------------------------------- guard functions
\* each takes the guard's maps g and the value its time.time() call returned,
\* and gives the maps afterwards (g) and the value returned (ret)

\* is_blocked starting the block anew whenever it finds the user blocked
is_blocked_extends(g, user_id, now) ==
    LET bu == Touch(g.blocked, user_id, 0)
    IN  [g |-> [g EXCEPT !.blocked =
                    IF now < bu[user_id]
                    THEN Put(bu, user_id, now + TEMP_BLOCK_MINUTES * 60)
                    ELSE bu],
         ret |-> now < bu[user_id]]

\* is_blocked storing the time of the call, not the default, for a user it
\* has not seen
is_blocked_stamps(g, user_id, now) ==
    LET bu == Touch(g.blocked, user_id, now)
    IN  [g |-> [g EXCEPT !.blocked = bu], ret |-> now < bu[user_id]]

\* is_blocked comparing with <= : still blocked at the instant of expiry
is_blocked_inclusive(g, user_id, now) ==
    LET bu == Touch(g.blocked, user_id, 0)
    IN  [g |-> [g EXCEPT !.blocked = bu], ret |-> now <= bu[user_id]]

\* is_blocked resetting an expired block to 0 when it reads it
is_blocked_clears_expired(g, user_id, now) ==
    LET bu == Touch(g.blocked, user_id, 0)
    IN  [g |-> [g EXCEPT !.blocked = IF now < bu[user_id] THEN bu
                                     ELSE Put(bu, user_id, 0)],
         ret |-> now < bu[user_id]]

is_blocked(g, user_id, now) ==
    LET bu == Touch(g.blocked, user_id, 0)
    IN  [g |-> [g EXCEPT !.blocked = bu], ret |-> now < bu[user_id]]

\* block_user on one expiry shared by all users on record
block_user_everyone(g, user_id, minutes, now) ==
    [g EXCEPT !.blocked = [k \in DOMAIN g.blocked \cup {user_id} |->
                              now + minutes * 60]]

\* block_user keeping the later of the old and the new expiry
block_user_max_wins(g, user_id, minutes, now) ==
    LET old == Get(g.blocked, user_id, 0)
        new == now + minutes * 60
    IN  [g EXCEPT !.blocked = Put(g.blocked, user_id,
                                  IF old > new THEN old ELSE new)]

block_user(g, user_id, minutes, now) ==
    [g EXCEPT !.blocked = Put(g.blocked, user_id, now + minutes * 60)]

\* too_frequent without `_last_msg_time[user_id] = now`
too_frequent_forgets(g, user_id, now) ==
    LET lm == Touch(g.last, user_id, 0)
    IN  [g |-> [g EXCEPT !.last = lm],
         ret |-> now - lm[user_id] < RATE_MIN_INTERVAL_SEC]

\* too_frequent storing the time before the test, so also when it returns true
too_frequent_always_stores(g, user_id, now) ==
    LET lm == Touch(g.last, user_id, 0)
    IN  [g |-> [g EXCEPT !.last = Put(lm, user_id, now)],
         ret |-> now - lm[user_id] < RATE_MIN_INTERVAL_SEC]

too_frequent(g, user_id, now) ==
    LET lm == Touch(g.last, user_id, 0)
    IN  IF now - lm[user_id] < RATE_MIN_INTERVAL_SEC
        THEN [g |-> [g EXCEPT !.last = lm], ret |-> TRUE]
        ELSE [g |-> [g EXCEPT !.last = Put(lm, user_id, now)], ret |-> FALSE]

\* the message ceiling compared with >= : the MSG_MAX_PER_MIN-th message warns
OverMsgLimitOffByOne(mh) == Len(mh) >= MSG_MAX_PER_MIN

\* the image ceiling compared with >= : the IMG_MAX_PER_MIN-th image warns
OverImgLimitOffByOne(ih) == Len(ih) >= IMG_MAX_PER_MIN

\* if len(_msg_history[user_id]) > MSG_MAX_PER_MIN
OverMsgLimit(mh) == Len(mh) > MSG_MAX_PER_MIN

\* if len(_img_history[user_id]) > IMG_MAX_PER_MIN
OverImgLimit(ih) == Len(ih) > IMG_MAX_PER_MIN

\* record_and_check_limits without the eviction loop of the image branch
record_and_check_limits_stale_images(g, user_id, is_image, now, now_b) ==
    LET m0 == Touch(g.msg, user_id, <<>>)
        mh == Evict(DequeAppend(m0[user_id], now), now)
        g1 == [g EXCEPT !.msg = Put(m0, user_id, mh)]
    IN  IF OverMsgLimit(mh)
        THEN [g |-> block_user(g1, user_id, TEMP_BLOCK_MINUTES, now_b),
              ret |-> TooManyMessages]
        ELSE IF is_image
        THEN LET i0 == Touch(g1.img, user_id, <<>>)
                 ih == DequeAppend(i0[user_id], now)
                 g2 == [g1 EXCEPT !.img = Put(i0, user_id, ih)]
             IN  IF OverImgLimit(ih)
                 THEN [g |-> block_user(g2, user_id, TEMP_BLOCK_MINUTES, now_b),
                       ret |-> TooManyImages]
                 ELSE [g |-> g2, ret |-> None]
        ELSE [g |-> g1, ret |-> None]

\* record_and_check_limits with the image branch ahead of the message ceiling
record_and_check_limits_image_first(g, user_id, is_image, now, now_b) ==
    LET m0 == Touch(g.msg, user_id, <<>>)
        mh == Evict(DequeAppend(m0[user_id], now), now)
        g1 == [g EXCEPT !.msg = Put(m0, user_id, mh)]
        i0 == Touch(g1.img, user_id, <<>>)
        ih == Evict(DequeAppend(i0[user_id], now), now)
        g2 == [g1 EXCEPT !.img = Put(i0, user_id, ih)]
    IN  IF is_image /\ OverImgLimit(ih)
        THEN [g |-> block_user(g2, user_id, TEMP_BLOCK_MINUTES, now_b),
              ret |-> TooManyImages]
        ELSE IF OverMsgLimit(mh)
        THEN [g |-> block_user(IF is_image THEN g2 ELSE g1, user_id,
                               TEMP_BLOCK_MINUTES, now_b),
              ret |-> TooManyMessages]
        ELSE [g |-> IF is_image THEN g2 ELSE g1, ret |-> None]

\* now is the read at the top of the function, now_b the later read inside
\* block_user when it is called
record_and_check_limits(g, user_id, is_image, now, now_b) ==
    LET m0 == Touch(g.msg, user_id, <<>>)
        mh == Evict(DequeAppend(m0[user_id], now), now)
        g1 == [g EXCEPT !.msg = Put(m0, user_id, mh)]
    IN  IF OverMsgLimit(mh)
        THEN [g |-> block_user(g1, user_id, TEMP_BLOCK_MINUTES, now_b),
              ret |-> TooManyMessages]
        ELSE IF is_image
        THEN LET i0 == Touch(g1.img, user_id, <<>>)
                 ih == Evict(DequeAppend(i0[user_id], now), now)
                 g2 == [g1 EXCEPT !.img = Put(i0, user_id, ih)]
             IN  IF OverImgLimit(ih)
                 THEN [g |-> block_user(g2, user_id, TEMP_BLOCK_MINUTES, now_b),
                       ret |-> TooManyImages]
                 ELSE [g |-> g2, ret |-> None]
        ELSE [g |-> g1, ret |-> None]

\* ------------------------------------------------------------- observation
\* op: the operation ("webhook" or the guard function called directly);
\* user: its user_id; mtype: the message type; minutes: block_user's argument;
\* before: blocked_until of the user before the operation; fresh: whether the
\* user had no activity recorded before it; nth: which one this event is in the
\* sender's run of events that passed both gates; calls: the guard
\* functions consulted, in order, and nows: the clock each of them read;
\* blocked, frequent, over_msg: what is_blocked, too_frequent and
\* record_and_check_limits returned; outcome: how the dispatcher left the
\* event; replies: the replies sent; ai: whether assess_from_text_or_image
\* was called; for a whole request, batch: its events; handled: how many of
\* them the loop got to; raised: whether one of them raised; status: the HTTP
\* status of the response
NoObs ==
    [op |-> "-", user |-> "-", mtype |-> "-", minutes |-> 0, before |-> 0,
     batch |-> <<>>, handled |-> 0, raised |-> FALSE, status |-> 0,
     fresh |-> FALSE, nth |-> 0, calls |-> <<>>, nows |-> <<>>, blocked |-> FALSE, frequent |-> FALSE,
     over_msg |-> None, outcome |-> "-", replies |-> <<>>, ai |-> FALSE]

\* no accepted event of the user is on record
Fresh(user_id) ==
    /\ Get(_last_msg_time, user_id, 0) = 0
    /\ Get(_msg_history, user_id, <<>>) = <<>>
    /\ Get(_img_history, user_id, <<>>) = <<>>

SetGuard(g) ==
    /\ _last_msg_time' = g.last
    /\ _img_history' = g.img
    /\ _msg_history' = g.msg
    /\ _blocked_until' = g.blocked

\* how many of the lags are a real advance of the clock
Lagged(l1, l2, l3) == Cardinality({i \in {1, 2, 3} : <<l1, l2, l3>>[i] > 0})

\* --------------------------------------------------------------- the clock
\* the clock advances by d, at most max times in a run
Tick(d, max) ==
    /\ ticks < max
    /\ clock' = clock + d
    /\ ticks' = ticks + 1
    /\ ev' = [NoObs EXCEPT !.op = "tick"]
    /\ UNCHANGED <<guard, calls, streak, race>>

\* ----------------------------------------------------------------- webhook
\* what the collaborators behind the guard do with an accepted event, named
\* by the reply it ends in: a text is one of the three menu phrases ("menu")
\* or goes to the AI; an image is fetched, is too large ("too_large") or goes
\* to the AI; the AI gives an estimate ("estimate") or an error (disabled,
\* quota, parse_failed: "ai_error"); any other message type gets the
\* "unsupported" reply
Downstream(mtype) ==
    IF mtype = "text" THEN {"menu", "estimate", "ai_error"}
    ELSE IF mtype = "image" THEN {"too_large", "estimate", "ai_error"}
    ELSE {"unsupported"}

\* Flow without the `continue` after the warning reply: the event goes on to
\* the collaborators
FlowWarnFallsThrough(blocked, frequent, over_msg, down) ==
    IF blocked
    THEN [n |-> 1, outcome |-> "blocked", replies |-> <<>>, ai |-> FALSE]
    ELSE IF frequent
    THEN [n |-> 2, outcome |-> "throttled", replies |-> <<>>, ai |-> FALSE]
    ELSE IF over_msg # None
    THEN [n |-> 3, outcome |-> "warned", replies |-> <<over_msg, down>>,
          ai |-> down \in {"estimate", "ai_error"}]
    ELSE [n |-> 3, outcome |-> "accepted", replies |-> <<down>>,
          ai |-> down \in {"estimate", "ai_error"}]

\* the control flow of one turn of the loop, given what the three guard
\* functions return: n is how many of them are consulted, outcome how the
\* event is left, replies the replies sent, ai whether the AI is called
Flow(blocked, frequent, over_msg, down) ==
    IF blocked
    THEN [n |-> 1, outcome |-> "blocked", replies |-> <<>>, ai |-> FALSE]
    ELSE IF frequent
    THEN [n |-> 2, outcome |-> "throttled", replies |-> <<>>, ai |-> FALSE]
    ELSE IF over_msg # None
    THEN [n |-> 3, outcome |-> "warned", replies |-> <<over_msg>>, ai |-> FALSE]
    ELSE [n |-> 3, outcome |-> "accepted", replies |-> <<down>>,
          ai |-> down \in {"estimate", "ai_error"}]

GuardCalls == <<"is_blocked", "too_frequent", "record_and_check_limits">>

\* one turn of the loop over the events of a request: the event of `sender`
\* (etype, mtype), with the clock advancing by l1 before too_frequent reads it,
\* by l2 before record_and_check_limits reads it and by l3 before block_user
\* reads it; `down` is what the collaborators do if the guard accepts
webhook(sender, etype, mtype, l1, l2, l3, down) ==
    LET user_id == IF sender = NoUserId THEN "unknown" ELSE sender
        now1 == clock
        now2 == now1 + l1
        now3 == now2 + l2
        now4 == now3 + l3
        o == [NoObs EXCEPT !.op = "webhook", !.user = user_id, !.mtype = mtype,
                           !.before = Get(_blocked_until, user_id, 0),
                           !.fresh = Fresh(user_id),
                           !.nth = Get(streak, user_id, 0) + 1]
    IN  /\ UNCHANGED <<calls, race>>
        /\ IF etype # "message"
           THEN /\ ev' = [o EXCEPT !.outcome = "skipped"]
                /\ UNCHANGED <<clock, ticks, guard, streak>>
           ELSE \E b \in {is_blocked(GuardState, user_id, now1)} :
                \E f \in {too_frequent(b.g, user_id, now2)} :
                \E r \in {record_and_check_limits(f.g, user_id, mtype = "image", now3, now4)} :
                \E w \in {Flow(b.ret, f.ret, r.ret, down)} :
                \E nows \in {IF w.outcome = "warned" THEN <<now1, now2, now3, now4>>
                             ELSE SubSeq(<<now1, now2, now3>>, 1, w.n)} :
                   /\ ev' = [o EXCEPT !.calls = SubSeq(GuardCalls, 1, w.n),
                                      !.nows = nows,
                                      !.blocked = b.ret,
                                      !.frequent = (w.n >= 2 /\ f.ret),
                                      !.over_msg = IF w.n >= 3 THEN r.ret ELSE None,
                                      !.outcome = w.outcome,
                                      !.replies = w.replies,
                                      !.ai = w.ai]
                   /\ SetGuard(IF w.n = 1 THEN b.g ELSE IF w.n = 2 THEN f.g ELSE r.g)
                   /\ streak' = Put(streak, user_id,
                                    IF w.n = 3 THEN Get(streak, user_id, 0) + 1 ELSE 0)
                   /\ clock' = nows[Len(nows)]
                   /\ ticks' = ticks + Cardinality({i \in 2..Len(nows) : nows[i] > nows[i - 1]})

\* ------------------------------------------------------ one whole request
\* the events a request can carry, image messages: e.down is what the
\* collaborators do with the event if the guard accepts it, "raises" when one
\* of them raises (get_line_image_bytes on a failed download, the formatting
\* of an estimate the AI returned without its numbers)
Events ==
    [sender : {"U1", NoUserId}, etype : {"message"}, mtype : {"image"},
     down : {"estimate", "raises"}]

\* every sequence of 1..n events
RECURSIVE Batches(_)
Batches(n) ==
    IF n = 0 THEN {}
    ELSE LET shorter == Batches(n - 1)
         IN  {<<e>> : e \in Events} \cup shorter
                \cup {Append(b, e) : b \in shorter, e \in Events}

\* one turn of the loop on the maps g, every read of the clock giving now:
\* the maps afterwards, how the event is left and whether the turn raised
Turn(g, e, now) ==
    IF e.etype # "message"
    THEN [g |-> g, outcome |-> "skipped", raised |-> FALSE]
    ELSE LET user_id == IF e.sender = NoUserId THEN "unknown" ELSE e.sender
             b == is_blocked(g, user_id, now)
             f == too_frequent(b.g, user_id, now)
             r == record_and_check_limits(f.g, user_id, e.mtype = "image", now, now)
             w == Flow(b.ret, f.ret, r.ret, e.down)
         IN  [g |-> IF w.n = 1 THEN b.g ELSE IF w.n = 2 THEN f.g ELSE r.g,
              outcome |-> w.outcome,
              raised |-> w.outcome = "accepted" /\ e.down = "raises"]

\* the loop with a try/except around each turn: the events after one that
\* raised are handled too
RECURSIVE RunEventsContinues(_, _, _)
RunEventsContinues(g, events, now) ==
    IF events = <<>> THEN [g |-> g, handled |-> 0, raised |-> FALSE]
    ELSE LET t == Turn(g, Head(events), now)
             rest == RunEventsContinues(t.g, Tail(events), now)
         IN  [g |-> rest.g, handled |-> 1 + rest.handled,
              raised |-> t.raised \/ rest.raised]

\* for ev in events: ... inside try: an exception leaves the loop
RECURSIVE RunEvents(_, _, _)
RunEvents(g, events, now) ==
    IF events = <<>> THEN [g |-> g, handled |-> 0, raised |-> FALSE]
    ELSE LET t == Turn(g, Head(events), now)
         IN  IF t.raised
             THEN [g |-> t.g, handled |-> 1, raised |-> TRUE]
             ELSE LET rest == RunEvents(t.g, Tail(events), now)
                  IN  [g |-> rest.g, handled |-> 1 + rest.handled,
                       raised |-> rest.raised]

\* return "", 200 at the end of the loop and in the except clause
Status(raised) == IF raised THEN 200 ELSE 200

\* the handling of one request with the events `events`
webhook_request(events) ==
    \E x \in {RunEvents(GuardState, events, clock)} :
        /\ SetGuard(x.g)
        /\ ev' = [NoObs EXCEPT !.op = "request", !.batch = events,
                               !.handled = x.handled, !.raised = x.raised,
                               !.status = Status(x.raised)]
        /\ start' = GuardState
        /\ UNCHANGED <<clock, ticks, calls, streak, handlers>>

\* ------------------------------------------- requests handled concurrently
\* the threads of the server, each handling one request with one message event
Threads == {"T1", "T2"}

\* a thread with no request: pc is the statement it is about to execute, now
\* the local variable of the guard function it is in, passed whether
\* too_frequent has returned False to it
Idle == [pc |-> "idle", user |-> "-", mtype |-> "-", now |-> 0,
         passed |-> FALSE, outcome |-> "-"]

\* the statement of thread t at its pc, executed on the maps g without
\* interruption: the maps and the thread afterwards.  A thread may be
\* suspended between any two statements, and between the test of a while
\* loop and its body.
Statement(g, h, now) ==
    LET u == h.user
        done(o) == [h EXCEPT !.pc = "done", !.outcome = o]
        at(l) == [h EXCEPT !.pc = l]
    IN  CASE h.pc = "is_blocked" ->
               LET b == is_blocked(g, u, now)
               IN  [g |-> b.g, h |-> IF b.ret THEN done("blocked") ELSE at("tf_test")]
          [] h.pc = "tf_test" ->
               LET lm == Touch(g.last, u, 0)
               IN  [g |-> [g EXCEPT !.last = lm],
                    h |-> IF now - lm[u] < RATE_MIN_INTERVAL_SEC
                          THEN done("throttled")
                          ELSE [at("tf_store") EXCEPT !.now = now]]
          [] h.pc = "tf_store" ->
               [g |-> [g EXCEPT !.last = Put(g.last, u, h.now)],
                h |-> [at("msg_append") EXCEPT !.passed = TRUE]]
          [] h.pc = "msg_append" ->
               LET m0 == Touch(g.msg, u, <<>>)
               IN  [g |-> [g EXCEPT !.msg = Put(m0, u, DequeAppend(m0[u], now))],
                    h |-> [at("msg_test") EXCEPT !.now = now]]
          [] h.pc = "msg_test" ->
               LET m0 == Touch(g.msg, u, <<>>)
               IN  [g |-> [g EXCEPT !.msg = m0],
                    h |-> IF m0[u] # <<>> /\ h.now - Head(m0[u]) > WINDOW_SEC
                          THEN at("msg_pop") ELSE at("msg_len")]
          [] h.pc = "msg_pop" ->
               LET m0 == Touch(g.msg, u, <<>>)
               IN  IF m0[u] = <<>>
                   THEN [g |-> [g EXCEPT !.msg = m0], h |-> done("crashed")]
                   ELSE [g |-> [g EXCEPT !.msg = Put(m0, u, Tail(m0[u]))],
                         h |-> at("msg_test")]
          [] h.pc = "msg_len" ->
               LET m0 == Touch(g.msg, u, <<>>)
                   g1 == [g EXCEPT !.msg = m0]
               IN  IF OverMsgLimit(m0[u])
                   THEN [g |-> block_user(g1, u, TEMP_BLOCK_MINUTES, now),
                         h |-> done("warned")]
                   ELSE [g |-> g1,
                         h |-> IF h.mtype = "image" THEN at("img_append")
                               ELSE done("accepted")]
          [] h.pc = "img_append" ->
               LET i0 == Touch(g.img, u, <<>>)
               IN  [g |-> [g EXCEPT !.img = Put(i0, u, DequeAppend(i0[u], h.now))],
                    h |-> at("img_test")]
          [] h.pc = "img_test" ->
               LET i0 == Touch(g.img, u, <<>>)
               IN  [g |-> [g EXCEPT !.img = i0],
                    h |-> IF i0[u] # <<>> /\ h.now - Head(i0[u]) > WINDOW_SEC
                          THEN at("img_pop") ELSE at("img_len")]
          [] h.pc = "img_pop" ->
               LET i0 == Touch(g.img, u, <<>>)
               IN  IF i0[u] = <<>>
                   THEN [g |-> [g EXCEPT !.img = i0], h |-> done("crashed")]
                   ELSE [g |-> [g EXCEPT !.img = Put(i0, u, Tail(i0[u]))],
                         h |-> at("img_test")]
          [] h.pc = "img_len" ->
               LET i0 == Touch(g.img, u, <<>>)
                   g1 == [g EXCEPT !.img = i0]
               IN  IF OverImgLimit(i0[u])
                   THEN [g |-> block_user(g1, u, TEMP_BLOCK_MINUTES, now),
                         h |-> done("warned")]
                   ELSE [g |-> g1, h |-> done("accepted")]

\* two requests arrive together, each with one message event of user_id
Arrive(user_id, mtype1, mtype2) ==
    /\ \A t \in Threads : handlers[t].pc = "idle"
    /\ handlers' = [t \in Threads |->
                      [Idle EXCEPT !.pc = "is_blocked", !.user = user_id,
                                   !.mtype = IF t = "T1" THEN mtype1 ELSE mtype2]]
    /\ start' = GuardState
    /\ ev' = [NoObs EXCEPT !.op = "arrive", !.user = user_id]
    /\ UNCHANGED <<clock, guard, ticks, calls, streak>>

\* thread t executes its next statement
Step(t) ==
    /\ handlers[t].pc \notin {"idle", "done"}
    /\ \E x \in {Statement(GuardState, handlers[t], clock)} :
          /\ SetGuard(x.g)
          /\ handlers' = [handlers EXCEPT ![t] = x.h]
    /\ ev' = [NoObs EXCEPT !.op = "step", !.user = handlers[t].user]
    /\ UNCHANGED <<clock, ticks, calls, streak, start>>

\* ------------------------------------------------- the guard called directly
CallIsBlocked(user_id) ==
    \E b \in {is_blocked(GuardState, user_id, clock)} :
        /\ SetGuard(b.g)
        /\ ev' = [NoObs EXCEPT !.op = "is_blocked", !.user = user_id,
                               !.before = Get(_blocked_until, user_id, 0),
                               !.calls = <<"is_blocked">>, !.nows = <<clock>>,
                               !.blocked = b.ret]
        /\ UNCHANGED <<clock, ticks, calls, streak, race>>

CallBlockUser(user_id, minutes) ==
    /\ \E g \in {block_user(GuardState, user_id, minutes, clock)} : SetGuard(g)
    /\ ev' = [NoObs EXCEPT !.op = "block_user", !.user = user_id,
                           !.minutes = minutes,
                           !.before = Get(_blocked_until, user_id, 0),
                           !.calls = <<"block_user">>, !.nows = <<clock>>]
    /\ UNCHANGED <<clock, ticks, calls, streak, race>>

CallTooFrequent(user_id) ==
    \E f \in {too_frequent(GuardState, user_id, clock)} :
        /\ SetGuard(f.g)
        /\ ev' = [NoObs EXCEPT !.op = "too_frequent", !.user = user_id,
                               !.before = Get(_blocked_until, user_id, 0),
                               !.calls = <<"too_frequent">>, !.nows = <<clock>>,
                               !.frequent = f.ret]
        /\ UNCHANGED <<clock, ticks, calls, streak, race>>

CallRecordAndCheck(user_id, is_image, max) ==
    \E r \in {record_and_check_limits(GuardState, user_id, is_image, clock, clock)} :
        /\ Len(calls.all) < max
        /\ SetGuard(r.g)
        /\ calls' = [all |-> Append(calls.all, clock),
                     img |-> IF is_image THEN Append(calls.img, clock) ELSE calls.img]
        /\ ev' = [NoObs EXCEPT !.op = "record_and_check_limits", !.user = user_id,
                               !.mtype = IF is_image THEN "image" ELSE "text",
                               !.before = Get(_blocked_until, user_id, 0),
                               !.calls = <<"record_and_check_limits">>,
                               !.nows = <<clock>>, !.over_msg = r.ret]
        /\ UNCHANGED <<clock, ticks, streak, race>>

\* ----------------------------------------------------------- specifications
Init ==
    /\ clock = 0
    /\ _last_msg_time = EmptyDict
    /\ _img_history = EmptyDict
    /\ _msg_history = EmptyDict
    /\ _blocked_until = EmptyDict
    /\ ev = NoObs
    /\ ticks = 0
    /\ calls = [all |-> <<>>, img |-> <<>>]
    /\ streak = EmptyDict
    /\ handlers = [t \in Threads |-> Idle]
    /\ start = GuardState

\* the dispatcher: events of every kind from one sender, the clock advancing
\* between events and between too_frequent and record_and_check_limits
Next ==
    \/ \E d \in Deltas : Tick(d, MaxTicks)
    \/ \E mtype \in {"text", "image", "sticker"}, lag \in Lags :
          /\ ticks + Lagged(0, lag, 0) <= MaxTicks
          /\ \E down \in Downstream(mtype) :
                webhook("U1", "message", mtype, 0, lag, 0, down)
    \/ webhook("U1", "follow", "-", 0, 0, 0, "-")

Spec == Init /\ [][Next]_vars

\* the dispatcher over a long run: text messages of one sender
SoloNext ==
    \/ Tick(RATE_MIN_INTERVAL_SEC, MaxSoloTicks)
    \/ webhook("U1", "message", "text", 0, 0, 0, "estimate")

SoloSpec == Init /\ [][SoloNext]_vars

\* is_blocked, block_user and too_frequent called directly, and a few calls
\* of record_and_check_limits with images
GateNext ==
    \/ \E d \in GateDeltas : Tick(d, MaxGateTicks)
    \/ CallIsBlocked("U1")
    \/ \E minutes \in BlockMinutes : CallBlockUser("U1", minutes)
    \/ CallTooFrequent("U1")
    \/ CallRecordAndCheck("U1", TRUE, MaxGateCalls)

GateSpec == Init /\ [][GateNext]_vars

\* record_and_check_limits called directly, and is_blocked
RecordNext ==
    \/ \E d \in RecordDeltas : Tick(d, MaxRecordTicks)
    \/ \E is_image \in BOOLEAN : CallRecordAndCheck("U1", is_image, MaxCalls)
    \/ CallIsBlocked("U1")

RecordSpec == Init /\ [][RecordNext]_vars

\* the dispatcher serving one sender, events one at a time and then two
\* requests at once
RaceNext ==
    \/ /\ \A t \in Threads : handlers[t].pc = "idle"
       /\ \E d \in RaceDeltas : Tick(d, MaxRaceTicks)
    \/ /\ \A t \in Threads : handlers[t].pc = "idle"
       /\ \E mtype \in {"text", "image"} :
             webhook("U1", "message", mtype, 0, 0, 0, "estimate")
    \/ \E mtype1, mtype2 \in {"text", "image"} : Arrive("U1", mtype1, mtype2)
    \/ \E t \in Threads : Step(t)

RaceSpec == Init /\ [][RaceNext]_vars

\* the dispatcher over a long run with handlers that may be delayed between
\* too_frequent and record_and_check_limits: text messages of one sender who
\* lets no instant pass without a message accepted (the clock advances once
\* the sender's last accepted message is of the present instant), or stays
\* silent for longer than the window
LagNext ==
    \/ /\ clock = 0 \/ Get(_last_msg_time, "U1", 0) = clock
       /\ Tick(RATE_MIN_INTERVAL_SEC, MaxLagTicks)
    \/ \E lag \in Lags :
          /\ ticks + Lagged(0, lag, 0) <= MaxLagTicks
          /\ webhook("U1", "message", "text", 0, lag, 0, "estimate")

LagSpec == Init /\ [][LagNext]_vars

\* whole requests of up to MaxBatch events, some of which raise
BatchNext ==
    \/ Tick(RATE_MIN_INTERVAL_SEC, MaxBatchTicks)
    \/ \E events \in Batches(MaxBatch) : webhook_request(events)

BatchSpec == Init /\ [][BatchNext]_vars

\* the dispatcher serving two senders, one of them without a userId, with
\* images, and is_blocked called directly for a sender and for a user never seen
Senders == {"U1", NoUserId}

PairNext ==
    \/ Tick(RATE_MIN_INTERVAL_SEC, MaxPairTicks)
    \/ \E sender \in Senders :
          webhook(sender, "message", "image", 0, 0, 0, "estimate")
    \/ \E user_id \in {"U1", "U2"} : CallIsBlocked(user_id)

PairSpec == Init /\ [][PairNext]_vars

\* ------------------------------------------------------------------ claims
\* every user_id a run can store under
Keys == {"U1", "U2", "unknown"}

\* how many entries of the sequence of times ts lie in lo..hi
CountIn(ts, lo, hi) == Cardinality({i \in 1..Len(ts) : lo <= ts[i] /\ ts[i] <= hi})

\* C1: for every message event the dispatcher consults is_blocked, then
\* too_frequent only if is_blocked returned false, then
\* record_and_check_limits only if too_frequent returned false; an event for
\* which is_blocked or too_frequent returns true is dropped with no reply and
\* no AI call; when record_and_check_limits returns a warning, that warning is
\* the one reply sent and the AI is not called.
C1_GuardOrderAndShortCircuit ==
    (ev.op = "webhook" /\ ev.outcome # "skipped") =>
        LET n == Len(ev.calls)
        IN  /\ n \in 1..3
            /\ ev.calls = SubSeq(<<"is_blocked", "too_frequent",
                                   "record_and_check_limits">>, 1, n)
            /\ (ev.blocked <=> ev.nows[1] < ev.before)
            /\ (ev.blocked <=> n = 1)
            /\ (ev.frequent <=> n = 2)
            /\ (n = 2 => ev.nows[2] - Get(_last_msg_time, ev.user, 0)
                            < RATE_MIN_INTERVAL_SEC)
            /\ (n < 3 => ev.over_msg = None /\ ev.replies = <<>> /\ ~ev.ai
                         /\ ev.outcome \in {"blocked", "throttled"})
            /\ (ev.over_msg # None =>
                   /\ ev.over_msg \in {TooManyMessages, TooManyImages}
                   /\ ev.replies = <<ev.over_msg>>
                   /\ ~ev.ai
                   /\ ev.outcome = "warned")

\* a message event answered with the warning of record_and_check_limits
C1_Witness ==
    /\ ev.op = "webhook"
    /\ ev.outcome = "warned"
    /\ ev.over_msg = TooManyImages
    /\ ev.replies = <<TooManyImages>>

\* the user of the direct calls
Caller == "U1"

\* C2: when MSG_MAX_PER_MIN + 1 non-image calls of record_and_check_limits
\* are made for a user with timestamps within one 60-second window, the first
\* MSG_MAX_PER_MIN return no warning and the next returns TooManyMessages,
\* after which is_blocked is true for the user at every time strictly before
\* the time of that call plus 30 minutes.
C2_MessageCeiling ==
    LET n == Len(calls.all)
        last == calls.all[n]
        recorded == ev.op = "record_and_check_limits"
    IN  (n >= 1 /\ calls.img = <<>> /\ last - calls.all[1] <= WINDOW_SEC) =>
            /\ (recorded /\ n <= MSG_MAX_PER_MIN =>
                   /\ ev.over_msg = None
                   /\ ~is_blocked(GuardState, Caller, clock).ret)
            /\ (recorded /\ n = MSG_MAX_PER_MIN + 1 =>
                   ev.over_msg = TooManyMessages)
            /\ (n = MSG_MAX_PER_MIN + 1 =>
                   /\ \A tau \in last..(last + TEMP_BLOCK_MINUTES * 60 - 1) :
                         is_blocked(GuardState, Caller, tau).ret
                   /\ (ev.op = "is_blocked"
                       /\ ev.nows[1] < last + TEMP_BLOCK_MINUTES * 60 => ev.blocked))

\* the call that exceeds the message ceiling, with the calls spread over the
\* whole window
C2_Witness ==
    /\ ev.op = "record_and_check_limits"
    /\ calls.img = <<>>
    /\ Len(calls.all) = MSG_MAX_PER_MIN + 1
    /\ calls.all[MSG_MAX_PER_MIN + 1] - calls.all[1] = WINDOW_SEC
    /\ ev.over_msg = TooManyMessages

\* every image call in the window ending at now was made with at most
\* MSG_MAX_PER_MIN calls in the window ending at it
UnderMessageCeiling(now) ==
    \A i \in 1..Len(calls.img) :
        now - calls.img[i] <= WINDOW_SEC =>
            CountIn(calls.all, calls.img[i] - WINDOW_SEC, calls.img[i]) <= MSG_MAX_PER_MIN

\* C3: when IMG_MAX_PER_MIN + 1 image calls of record_and_check_limits are
\* made within 60 seconds while the messages in the window stay at or below
\* MSG_MAX_PER_MIN, the first IMG_MAX_PER_MIN of them return no warning and the
\* next returns TooManyImages and blocks the user for the block duration.
C3_ImageCeiling ==
    (ev.op = "record_and_check_limits" /\ ev.mtype = "image"
     /\ UnderMessageCeiling(ev.nows[1])) =>
        LET now == ev.nows[1]
            k == CountIn(calls.img, now - WINDOW_SEC, now)
        IN  /\ (k <= IMG_MAX_PER_MIN => ev.over_msg = None)
            /\ (k > IMG_MAX_PER_MIN =>
                   /\ ev.over_msg = TooManyImages
                   /\ Get(_blocked_until, Caller, 0) = now + TEMP_BLOCK_MINUTES * 60
                   /\ is_blocked(GuardState, Caller, now).ret)

\* the image call that exceeds the image ceiling, among text calls, with the
\* images spread over the whole window
C3_Witness ==
    /\ ev.op = "record_and_check_limits"
    /\ ev.mtype = "image"
    /\ UnderMessageCeiling(clock)
    /\ Len(calls.img) = IMG_MAX_PER_MIN + 1
    /\ clock - calls.img[1] = WINDOW_SEC
    /\ Len(calls.all) > Len(calls.img)
    /\ ev.over_msg = TooManyImages

\* one call at a time t, then at most MSG_MAX_PER_MIN further calls, all at
\* t + 61 or later
C7_Scenario ==
    LET n == Len(calls.all)
    IN  /\ n >= 2
        /\ n <= MSG_MAX_PER_MIN + 1
        /\ calls.all[2] - calls.all[1] >= WINDOW_SEC + 1

\* how many of the further calls are images
C7_FurtherImages == CountIn(calls.img, calls.all[2], clock)

\* C7 as stated: after a message recorded at t, none of MSG_MAX_PER_MIN
\* further messages recorded at or after t + 61 gets a warning and the user
\* is never blocked.
C7_Original ==
    C7_Scenario =>
        /\ (ev.op = "record_and_check_limits" => ev.over_msg = None)
        /\ Get(_blocked_until, Caller, 0) = 0

\* C7 (amended): after a message recorded at t, none of MSG_MAX_PER_MIN
\* further messages recorded at or after t + 61, of which at most
\* IMG_MAX_PER_MIN are images, gets a warning, and the user is never blocked:
\* the first timestamp is evicted before the count is compared.
C7_SlidingWindowEviction ==
    (C7_Scenario /\ C7_FurtherImages <= IMG_MAX_PER_MIN) =>
        /\ (ev.op = "record_and_check_limits" =>
               /\ ev.over_msg = None
               /\ \A i \in 1..Len(_msg_history[Caller]) :
                     _msg_history[Caller][i] > calls.all[1])
        /\ Get(_blocked_until, Caller, 0) = 0
        /\ ~is_blocked(GuardState, Caller, clock).ret

\* the last of MSG_MAX_PER_MIN further messages, IMG_MAX_PER_MIN of them images
C7_Witness ==
    /\ C7_Scenario
    /\ Len(calls.all) = MSG_MAX_PER_MIN + 1
    /\ C7_FurtherImages = IMG_MAX_PER_MIN
    /\ ev.op = "record_and_check_limits"
    /\ ev.over_msg = None
    /\ Len(_msg_history[Caller]) = MSG_MAX_PER_MIN

\* whether is_blocked holds now for the user of the last operation
SenderBlocked == is_blocked(GuardState, ev.user, clock).ret

\* C4 as stated: of the text messages one user sends through the dispatcher
\* with gaps of at least 5 seconds, so that none is throttled, message
\* MSG_MAX_PER_MIN + 1 gets the TooManyMessages warning and blocks the user
\* for 30 minutes, and the message sent right after it is dropped because
\* is_blocked is true.
C4_Original ==
    [][ev'.op = "webhook" =>
        /\ (ev'.nth = MSG_MAX_PER_MIN + 1 /\ Len(ev'.calls) = 3 =>
               /\ ev'.over_msg = TooManyMessages
               /\ SenderBlocked')
        /\ (ev'.nth = MSG_MAX_PER_MIN + 2
            /\ ev'.nows[1] = Get(_last_msg_time, ev'.user, 0) =>
               ev'.outcome = "blocked")]_vars

\* C4 (amended): of the text messages one user sends through the dispatcher
\* with gaps of at least 5 seconds, so that none is throttled, none up to
\* message MSG_MAX_PER_MIN + 1 gets a warning or blocks the user, the window
\* never holding more than MSG_MAX_PER_MIN of them; the message sent right
\* after message MSG_MAX_PER_MIN + 1 is dropped with no reply because
\* too_frequent is true, is_blocked being false.
C4_SixteenSpacedTexts ==
    [][ev'.op = "webhook" =>
        /\ (ev'.nth <= MSG_MAX_PER_MIN + 1 /\ Len(ev'.calls) = 3 =>
               /\ ev'.over_msg = None
               /\ ev'.outcome = "accepted"
               /\ Len(_msg_history'[ev'.user]) <= MSG_MAX_PER_MIN
               /\ Get(_blocked_until', ev'.user, 0) = 0
               /\ ~SenderBlocked')
        /\ (ev'.nth = MSG_MAX_PER_MIN + 2
            /\ ev'.nows[1] = Get(_last_msg_time, ev'.user, 0) =>
               /\ ev'.outcome = "throttled"
               /\ ~ev'.blocked
               /\ ev'.frequent
               /\ ev'.replies = <<>>)]_vars

\* the message sent right after the sixteenth of a run of accepted texts
C4_Witness ==
    /\ ev.op = "webhook"
    /\ ev.user = "U1"
    /\ ev.mtype = "text"
    /\ ev.nth = MSG_MAX_PER_MIN + 2
    /\ ev.nows[1] = Get(_last_msg_time, ev.user, 0)
    /\ ev.outcome = "throttled"

\* C5: a too_frequent call at t2 with t2 - _last_msg_time[user] below
\* RATE_MIN_INTERVAL_SEC returns true and leaves the value of every map for
\* every user as it was; any other call returns false and stores t2 as the
\* user's _last_msg_time, leaving the histories and blocks as they were.
C5_TooFrequentFrame ==
    [][ev'.op = "too_frequent" =>
        LET u == ev'.user
            t2 == ev'.nows[1]
            old == Get(_last_msg_time, u, 0)
            rest == \A k \in Keys :
                       /\ Get(_msg_history', k, <<>>) = Get(_msg_history, k, <<>>)
                       /\ Get(_img_history', k, <<>>) = Get(_img_history, k, <<>>)
                       /\ Get(_blocked_until', k, 0) = Get(_blocked_until, k, 0)
                       /\ k # u => Get(_last_msg_time', k, 0) = Get(_last_msg_time, k, 0)
        IN  IF t2 - old < RATE_MIN_INTERVAL_SEC
            THEN ev'.frequent /\ rest /\ Get(_last_msg_time', u, 0) = old
            ELSE ~ev'.frequent /\ rest /\ Get(_last_msg_time', u, 0) = t2]_vars

\* a throttled call made after an accepted one at an earlier time, by a user
\* with a recorded message
C5_Witness ==
    /\ ev.op = "too_frequent"
    /\ ev.frequent
    /\ Get(_last_msg_time, ev.user, 0) > 0
    /\ ev.nows[1] > Get(_last_msg_time, ev.user, 0)
    /\ Get(_msg_history, ev.user, <<>>) # <<>>

\* C6 as stated: the first message event of a user with no prior activity is
\* not throttled, whatever the time, and once it is recorded the user's
\* message history holds one entry, and the image history one if it was an
\* image.
C6_FirstCallNotThrottled ==
    ev.op = "webhook" /\ ev.fresh /\ Len(ev.calls) >= 2 =>
        /\ ~ev.frequent
        /\ Len(Get(_msg_history, ev.user, <<>>)) = 1
        /\ ev.mtype = "image" => Len(Get(_img_history, ev.user, <<>>)) = 1

\* C8: is_blocked returns true exactly when the time it reads is strictly
\* before the user's _blocked_until: false at _blocked_until and later, and
\* false for a user never blocked.
C8_IsBlockedStrict ==
    ev.op = "is_blocked" =>
        LET bu == Get(_blocked_until, ev.user, 0)
            now == ev.nows[1]
        IN  /\ now < bu => ev.blocked
            /\ now >= bu => ~ev.blocked
            /\ bu = 0 => ~ev.blocked

\* is_blocked asked at the very instant a block expires
C8_Witness ==
    /\ ev.op = "is_blocked"
    /\ Get(_blocked_until, ev.user, 0) > 0
    /\ ev.nows[1] = Get(_blocked_until, ev.user, 0)
    /\ ~ev.blocked

\* C9 as stated: no step lowers any user's _blocked_until.
C9_Original ==
    [][\A k \in Keys :
          Get(_blocked_until', k, 0) >= Get(_blocked_until, k, 0)]_vars

\* C9 (amended): a user's _blocked_until changes only in a block action for
\* that user (block_user, called directly or by record_and_check_limits when
\* it warns), which sets it to the time read plus the duration; the new value
\* is at least the old one when the duration is at least as long as every
\* duration in use, as TEMP_BLOCK_MINUTES is.
C9_ChangesOnlyByBlock ==
    [][\A k \in Keys :
          LET old == Get(_blocked_until, k, 0)
              new == Get(_blocked_until', k, 0)
              minutes == IF ev'.op = "block_user" THEN ev'.minutes
                         ELSE TEMP_BLOCK_MINUTES
          IN  new # old =>
                /\ ev'.user = k
                /\ \/ ev'.op = "block_user"
                   \/ ev'.op = "record_and_check_limits" /\ ev'.over_msg # None
                /\ new = ev'.nows[1] + minutes * 60
                /\ (\A m \in BlockMinutes : m <= minutes) => new >= old]_vars

\* a warning from record_and_check_limits has moved the expiry of a user
\* already blocked
C9_Witness ==
    /\ ev.op = "record_and_check_limits"
    /\ ev.over_msg # None
    /\ ev.before > 0
    /\ Get(_blocked_until, ev.user, 0) > ev.before

\* C10: block_user leaves the user's _blocked_until at exactly the time read
\* plus the duration whatever was there before, a later expiry still in force
\* included, and applying the same block again changes nothing.
C10_LastWriteWins ==
    ev.op = "block_user" =>
        /\ Get(_blocked_until, ev.user, 0) = ev.nows[1] + ev.minutes * 60
        /\ block_user(GuardState, ev.user, ev.minutes, ev.nows[1]) = GuardState

\* a block still in force replaced by one that expires earlier
C10_Witness ==
    /\ ev.op = "block_user"
    /\ ev.before > ev.nows[1]
    /\ ev.before > Get(_blocked_until, ev.user, 0)
    /\ Get(_blocked_until, ev.user, 0) = ev.nows[1] + ev.minutes * 60

\* C11: a record_and_check_limits call for an image that leaves more than
\* MSG_MAX_PER_MIN entries in the user's message window returns
\* TooManyMessages and blocks the user, and leaves _img_history as it was:
\* nothing appended, nothing evicted, the image ceiling not looked at.
C11_MessageCheckFirst ==
    [][(/\ ev'.op = "record_and_check_limits"
        /\ ev'.mtype = "image"
        /\ Len(Get(_msg_history', ev'.user, <<>>)) > MSG_MAX_PER_MIN) =>
           /\ ev'.over_msg = TooManyMessages
           /\ _img_history' = _img_history
           /\ Get(_blocked_until', ev'.user, 0) =
                  ev'.nows[1] + TEMP_BLOCK_MINUTES * 60]_vars

\* an image call over the message ceiling made when the image window already
\* held IMG_MAX_PER_MIN images of the last 60 seconds, so that the image
\* ceiling would have been exceeded as well
C11_Witness ==
    /\ ev.op = "record_and_check_limits"
    /\ ev.mtype = "image"
    /\ ev.over_msg = TooManyMessages
    /\ Len(Get(_img_history, ev.user, <<>>)) >= IMG_MAX_PER_MIN
    /\ CountIn(calls.img, ev.nows[1] - WINDOW_SEC, ev.nows[1]) > IMG_MAX_PER_MIN

\* one event handled alone at time now on the maps g: the maps afterwards and
\* how the event is left
Alone(g, user_id, mtype, now) ==
    LET b == is_blocked(g, user_id, now)
        f == too_frequent(b.g, user_id, now)
        r == record_and_check_limits(f.g, user_id, mtype = "image", now, now)
        w == Flow(b.ret, f.ret, r.ret, "estimate")
    IN  [g |-> IF w.n = 1 THEN b.g ELSE IF w.n = 2 THEN f.g ELSE r.g,
         outcome |-> w.outcome]

\* the two concurrent requests ended as if `first` had been handled alone and
\* then `second`
AsIfInOrder(first, second) ==
    LET a == Alone(start, handlers[first].user, handlers[first].mtype, clock)
        b == Alone(a.g, handlers[second].user, handlers[second].mtype, clock)
    IN  /\ handlers[first].outcome = a.outcome
        /\ handlers[second].outcome = b.outcome
        /\ \A k \in Keys :
              /\ Get(_last_msg_time, k, 0) = Get(b.g.last, k, 0)
              /\ Get(_msg_history, k, <<>>) = Get(b.g.msg, k, <<>>)
              /\ Get(_img_history, k, <<>>) = Get(b.g.img, k, <<>>)
              /\ Get(_blocked_until, k, 0) = Get(b.g.blocked, k, 0)

\* C12 as stated: two events of one user handled concurrently leave the guard
\* and end themselves as some sequential order of the two would, and at most
\* one of two events less than RATE_MIN_INTERVAL_SEC apart passes too_frequent.
C12_AsIfMutuallyExclusive ==
    (\A t \in Threads : handlers[t].pc = "done") =>
        /\ AsIfInOrder("T1", "T2") \/ AsIfInOrder("T2", "T1")
        /\ ~(handlers["T1"].passed /\ handlers["T2"].passed)

\* every entry of the sequence of times h is at most WINDOW_SEC before now,
\* and the last one is now
WithinWindow(h, now) ==
    /\ h # <<>>
    /\ h[Len(h)] = now
    /\ \A i \in 1..Len(h) : h[i] <= now /\ now - h[i] <= WINDOW_SEC

\* C13: right after a record_and_check_limits call every entry of the user's
\* _msg_history is within 60 seconds of the time just inserted, and so is
\* every entry of _img_history when the call was for an image and got past the
\* message ceiling; a history changes in no other step, so entries older than
\* that stay until the next call that touches the history.
C13_WindowAfterInsert ==
    [][/\ ev'.op = "record_and_check_limits" =>
            /\ WithinWindow(Get(_msg_history', ev'.user, <<>>), ev'.nows[1])
            /\ (ev'.mtype = "image" /\ ev'.over_msg # TooManyMessages) =>
                  WithinWindow(Get(_img_history', ev'.user, <<>>), ev'.nows[1])
       /\ \A k \in Keys :
            /\ Get(_msg_history', k, <<>>) # Get(_msg_history, k, <<>>) =>
                  ev'.op = "record_and_check_limits" /\ ev'.user = k
            /\ Get(_img_history', k, <<>>) # Get(_img_history, k, <<>>) =>
                  /\ ev'.op = "record_and_check_limits" /\ ev'.user = k
                  /\ ev'.mtype = "image" /\ ev'.over_msg # TooManyMessages]_vars

\* a text call has evicted the first message from _msg_history, while
\* _img_history, not touched by it, still holds an image older than 60 seconds
C13_Witness ==
    /\ ev.op = "record_and_check_limits"
    /\ ev.mtype = "text"
    /\ Len(calls.all) > Len(Get(_msg_history, ev.user, <<>>))
    /\ Get(_img_history, ev.user, <<>>) # <<>>
    /\ clock - Head(Get(_img_history, ev.user, <<>>)) > WINDOW_SEC

\* the four maps hold for user k in the next state what they hold now
SameRecord(k) ==
    /\ Get(_last_msg_time', k, 0) = Get(_last_msg_time, k, 0)
    /\ Get(_msg_history', k, <<>>) = Get(_msg_history, k, <<>>)
    /\ Get(_img_history', k, <<>>) = Get(_img_history, k, <<>>)
    /\ Get(_blocked_until', k, 0) = Get(_blocked_until, k, 0)

\* C14: a call of is_blocked, for a user on record or never seen, leaves
\* every user's last message time, histories and blocked_until at the values
\* they had, and so does an event the dispatcher drops because its user is
\* blocked.
C14_IsBlockedPureRead ==
    [][(\/ ev'.op = "is_blocked"
        \/ ev'.op = "webhook" /\ ev'.outcome = "blocked") =>
           \A k \in Keys : SameRecord(k)]_vars

\* is_blocked called, some time after the start, for a user never seen while
\* another user is blocked
C14_Witness ==
    /\ ev.op = "is_blocked"
    /\ ev.nows[1] > 0
    /\ ev.user \notin DOMAIN _last_msg_time
    /\ ~ev.blocked
    /\ \E k \in Keys : is_blocked(GuardState, k, clock).ret

\* the maps g with the records of every user but user_id removed
Only(g, user_id) ==
    LET cut(d) == [k \in DOMAIN d \cap {user_id} |-> d[k]]
    IN  [last |-> cut(g.last), img |-> cut(g.img),
         msg |-> cut(g.msg), blocked |-> cut(g.blocked)]

\* whether is_blocked holds now for user k
BlockedNow(k) == is_blocked(GuardState, k, clock).ret

\* the record of user a in the next state is the one the maps g hold
RecordBecomes(a, g) ==
    /\ Get(_last_msg_time', a, 0) = Get(g.last, a, 0)
    /\ Get(_msg_history', a, <<>>) = Get(g.msg, a, <<>>)
    /\ Get(_img_history', a, <<>>) = Get(g.img, a, <<>>)
    /\ Get(_blocked_until', a, 0) = Get(g.blocked, a, 0)

\* C15: an event or an is_blocked call of user a leaves the record of every
\* other user as it was, so that a block a's traffic triggers makes
\* is_blocked true for a and changes it for nobody else; and what happens to
\* the event (accepted, throttled, blocked, warned) and to a's record is what
\* would happen if a's record were the only one.
C15_PerUserIsolation ==
    [][(ev'.op = "is_blocked" \/ (ev'.op = "webhook" /\ ev'.outcome # "skipped")) =>
        LET a == ev'.user
            own == Only(GuardState, a)
        IN  /\ \A k \in Keys \ {a} : SameRecord(k) /\ BlockedNow(k)' = BlockedNow(k)
            /\ ev'.outcome = "warned" => SenderBlocked'
            /\ ev'.op = "is_blocked" =>
                  ev'.blocked = is_blocked(own, a, ev'.nows[1]).ret
            /\ ev'.op = "webhook" =>
                  /\ ev'.outcome = Alone(own, a, ev'.mtype, ev'.nows[1]).outcome
                  /\ RecordBecomes(a, Alone(own, a, ev'.mtype, ev'.nows[1]).g)]_vars

\* an event without userId is accepted while U1, blocked by its own images,
\* is still blocked
C15_Witness ==
    /\ ev.op = "webhook"
    /\ ev.user = "unknown"
    /\ ev.outcome = "accepted"
    /\ BlockedNow("U1")
    /\ ~BlockedNow("unknown")

\* how many times RATE_MIN_INTERVAL_SEC apart fit in one window: 13
SpacedInWindow == WINDOW_SEC \div RATE_MIN_INTERVAL_SEC + 1

C17_BlockNotProlonged ==
    [][(ev'.op = "webhook" /\ ev'.outcome # "skipped") =>
        LET u == ev'.user
            until == Get(_blocked_until, u, 0)
        IN  /\ clock < until =>
                  /\ ev'.outcome = "blocked"
                  /\ Get(_blocked_until', u, 0) = until
                  /\ SameRecord(u)
            /\ (until > 0 /\ clock >= until /\ Get(_last_msg_time, u, 0) < until) =>
                  /\ ~ev'.blocked
                  /\ ev'.outcome = "accepted"
                  /\ ev'.over_msg = None
                  /\ Len(Get(_msg_history', u, <<>>)) = 1
                  /\ ev'.mtype = "image" => Len(Get(_img_history', u, <<>>)) = 1]_vars

\* an image sent at the very instant the block ends has been accepted, the
\* block having stayed where it was set
C17_Witness ==
    /\ ev.op = "webhook"
    /\ ev.mtype = "image"
    /\ ev.before > 0
    /\ ev.nows[1] = ev.before
    /\ ev.outcome = "accepted"
    /\ Get(_blocked_until, ev.user, 0) = ev.before
    /\ Get(_img_history, ev.user, <<>>) = <<ev.nows[3]>>

\* C18: a user's _blocked_until changes only in a record_and_check_limits
\* call of that user which, at the time now it read, finds more than
\* MSG_MAX_PER_MIN of the user's recorded messages, or more than
\* IMG_MAX_PER_MIN of the user's recorded images, with times in
\* now - 60 .. now; images recorded earlier than that, still in _img_history
\* because only texts came since, do not count.
C18_BlocksAreSound ==
    [][\A k \in Keys :
          Get(_blocked_until', k, 0) # Get(_blocked_until, k, 0) =>
             LET now == ev'.nows[1]
             IN  /\ ev'.op = "record_and_check_limits"
                 /\ ev'.user = k
                 /\ \/ /\ ev'.over_msg = TooManyMessages
                       /\ CountIn(calls'.all, now - WINDOW_SEC, now) > MSG_MAX_PER_MIN
                    \/ /\ ev'.over_msg = TooManyImages
                       /\ CountIn(calls'.img, now - WINDOW_SEC, now) > IMG_MAX_PER_MIN]_vars

\* an image call made when _img_history held IMG_MAX_PER_MIN images older
\* than the window, kept there through text calls, has returned no warning
\* and blocked nobody
C18_Witness ==
    /\ ev.op = "record_and_check_limits"
    /\ ev.mtype = "image"
    /\ ev.over_msg = None
    /\ Get(_blocked_until, ev.user, 0) = 0
    /\ Len(calls.img) > IMG_MAX_PER_MIN
    /\ CountIn(calls.img, ev.nows[1] - WINDOW_SEC, ev.nows[1]) = 1
    /\ CountIn(calls.all, ev.nows[1] - WINDOW_SEC, ev.nows[1]) > 1

\* the maps after the first n events of batch b were handled in order, each
\* in a turn of its own, starting from the maps g
RECURSIVE GuardAfter(_, _, _, _)
GuardAfter(g, b, n, now) ==
    IF n = 0 THEN g ELSE Turn(GuardAfter(g, b, n - 1, now), b[n], now).g

\* the events of batch b whose turn raises when they are handled in order
Failing(g, b, now) ==
    {i \in 1..Len(b) : Turn(GuardAfter(g, b, i - 1, now), b[i], now).raised}

\* C19: every request is answered with status 200.  When the handling of an
\* event raises, the loop stops there: the guard holds what the events up to
\* and including that one wrote, the failing event is on record as accepted,
\* and no later event of the batch is handled.  When none raises, all are.
C19_AlwaysOk ==
    ev.op = "request" =>
        \E bad \in {Failing(start, ev.batch, clock)} :
        \E after \in {GuardAfter(start, ev.batch, ev.handled, clock)} :
        LET b == ev.batch
            n == ev.handled
        IN  /\ ev.status = 200
            /\ ev.raised = (bad # {})
            /\ IF bad = {} THEN n = Len(b)
               ELSE /\ n \in bad /\ \A i \in bad : n <= i
                    /\ LET u == IF b[n].sender = NoUserId THEN "unknown"
                                ELSE b[n].sender
                       IN  /\ Get(_last_msg_time, u, 0) = clock
                           /\ Get(_msg_history, u, <<>>) # <<>>
            /\ \A k \in Keys :
                  /\ Get(_last_msg_time, k, 0) = Get(after.last, k, 0)
                  /\ Get(_msg_history, k, <<>>) = Get(after.msg, k, <<>>)
                  /\ Get(_img_history, k, <<>>) = Get(after.img, k, <<>>)
                  /\ Get(_blocked_until, k, 0) = Get(after.blocked, k, 0)

\* a request of three events of which the second raised: the first sender's
\* event and the failing one are on record, the third event's sender, who
\* would have been accepted, is not
C19_Witness ==
    /\ ev.op = "request"
    /\ ev.status = 200
    /\ ev.raised
    /\ Len(ev.batch) = 3
    /\ ev.handled = 2
    /\ ev.batch[1].sender = NoUserId
    /\ ev.batch[2].sender = "U1"
    /\ ev.batch[3].sender = NoUserId
    /\ Get(_last_msg_time, "unknown", 0) = clock
    /\ Get(_last_msg_time, "U1", 0) = clock
    /\ Len(Get(_msg_history, "unknown", <<>>)) = 1

====
